---------------------------- MODULE Spec2Model ----------------------------
(***************************************************************************)
(* Buildings 3D API (src/backend/main.py): the query pipeline              *)
(*   parse_height_filter -> apply_height_filter -> add_colour_column ->    *)
(*   normalize_property -> build_insights -> query_geo,                    *)
(* together with the startup loader load_buildings.                        *)
(*                                                                         *)
(* Texts are sequences of one-character strings, so that the regular       *)
(* expression HEIGHT_REGEX is matched character by character.  Numbers     *)
(* parsed from text are exact decimal fractions <<numerator, denominator>>.*)
(***************************************************************************)
EXTENDS Integers, Sequences, FiniteSets, TLC

VARIABLES
    qgen,        \* parser run: how the query text was put together
    qtext,       \* parser run: the query text handed to parse_height_filter
    parsed,      \* parser run: Pending, or what parse_height_filter returned
    nval,        \* normalizer run: the attribute value handed in
    nres,        \* normalizer run: Pending, or the outcome
    cin,         \* colour run: the arguments height, low_h, high_h
    cout,        \* colour run: Pending, or the colour returned
    fs,          \* server: the file ../data/buildings_3d.geojson
    ldpc,        \* server: where load_buildings stands
    ld_gdf,      \* server: load_buildings' local gdf
    BUILDINGS_GDF, \* server: the global, NoRef or an object
    heap,        \* server: the frames that outlive a handler
    reqs         \* server: the requests, and what each was answered

parseVars == <<qgen, qtext, parsed>>

normVars == <<nval, nres>>

colourVars == <<cin, cout>>

serverVars == <<fs, ldpc, ld_gdf, BUILDINGS_GDF, heap, reqs>>

vars == <<qgen, qtext, parsed, nval, nres, cin, cout,
          fs, ldpc, ld_gdf, BUILDINGS_GDF, heap, reqs>>

(***************************************************************************)
(* Characters                                                              *)
(***************************************************************************)
Digits == <<"0", "1", "2", "3", "4", "5", "6", "7", "8", "9">>

LowerChars ==
    <<"a", "b", "c", "d", "e", "f", "g", "h", "i", "j", "k", "l", "m",
      "n", "o", "p", "q", "r", "s", "t", "u", "v", "w", "x", "y", "z">>

UpperChars ==
    <<"A", "B", "C", "D", "E", "F", "G", "H", "I", "J", "K", "L", "M",
      "N", "O", "P", "Q", "R", "S", "T", "U", "V", "W", "X", "Y", "Z">>

DigitSet == {Digits[i] : i \in 1..10}

LowerSet == {LowerChars[i] : i \in 1..26}

UpperSet == {UpperChars[i] : i \in 1..26}

DigitValOf == [c \in DigitSet |-> (CHOOSE i \in 1..10 : Digits[i] = c) - 1]

LowerOf == [c \in UpperSet |-> LowerChars[CHOOSE i \in 1..26 : UpperChars[i] = c]]

UpperOf == [c \in LowerSet |-> UpperChars[CHOOSE i \in 1..26 : LowerChars[i] = c]]

\* \d of the pattern
IsDigit(c) == c \in DigitSet

DigitVal(c) == DigitValOf[c]

\* \s of the pattern, and the characters str.strip() removes
IsSpace(c) == c \in {" ", "\t"}

\* str.lower() on one character; also how re.IGNORECASE compares letters
Lower(c) == IF c \in UpperSet THEN LowerOf[c] ELSE c

Upper(c) == IF c \in LowerSet THEN UpperOf[c] ELSE c

LowerStr(s) == [i \in 1..Len(s) |-> Lower(s[i])]

UpperStr(s) == [i \in 1..Len(s) |-> Upper(s[i])]

\* \w of the pattern: letters, digits and the underscore
IsWordChar(c) == c \in DigitSet \/ c = "_" \/ c \in LowerSet \/ c \in UpperSet

Min(S) == CHOOSE x \in S : \A y \in S : x <= y

Max(S) == CHOOSE x \in S : \A y \in S : x >= y

(***************************************************************************)
(* HEIGHT_REGEX.  A token is a sequence of words; the words of a token are *)
(* separated by \s+ in the pattern.  Alternatives are listed in the        *)
(* pattern's order, which is the order the matcher tries them in.          *)
\* The words and symbols the pattern and textual_map are written with
\* The words of the pattern and of textual_map, as sequences of characters
W ==
    [height |-> <<"h", "e", "i", "g", "h", "t">>,
     tall |-> <<"t", "a", "l", "l">>,
     taller |-> <<"t", "a", "l", "l", "e", "r">>,
     above |-> <<"a", "b", "o", "v", "e">>,
     over |-> <<"o", "v", "e", "r">>,
     greater |-> <<"g", "r", "e", "a", "t", "e", "r">>,
     less |-> <<"l", "e", "s", "s">>,
     below |-> <<"b", "e", "l", "o", "w">>,
     under |-> <<"u", "n", "d", "e", "r">>,
     at |-> <<"a", "t">>,
     least |-> <<"l", "e", "a", "s", "t">>,
     most |-> <<"m", "o", "s", "t">>,
     exactly |-> <<"e", "x", "a", "c", "t", "l", "y">>,
     than |-> <<"t", "h", "a", "n">>]

\* The operator symbols
S ==
    [GE |-> <<">", "=">>,
     LE |-> <<"<", "=">>,
     GT |-> <<">">>,
     LT |-> <<"<">>,
     EQ |-> <<"=">>,
     EQEQ |-> <<"=", "=">>]

AnchorAlts ==
    << <<W.height>>, <<W.tall>>, <<W.taller>>, <<W.above>>, <<W.over>>,
       <<W.greater>>, <<W.less>>, <<W.below>>, <<W.under>>,
       <<W.at, W.least>>, <<W.at, W.most>>, <<W.exactly>> >>

OpAlts ==
    << <<S.GE>>, <<S.LE>>, <<S.GT>>, <<S.LT>>, <<S.EQ>>, <<S.EQEQ>>,
       <<W.greater, W.than>>, <<W.less, W.than>>,
       <<W.at, W.least>>, <<W.at, W.most>>,
       <<W.above>>, <<W.below>>, <<W.over>>, <<W.under>>, <<W.exactly>> >>

\* [^\d]{0,12}? : the longest gap the pattern allows
GapMax == 12

NoMatch == [ok |-> FALSE]

\* A literal word at position p, letters compared without case; the position
\* after it, or 0.
MatchLit(s, p, w) ==
    IF /\ p + Len(w) - 1 <= Len(s)
       /\ \A k \in 1..Len(w) : Lower(s[p + k - 1]) = w[k]
    THEN p + Len(w)
    ELSE 0

RECURSIVE SkipSpaces(_, _)
\* \s* (greedy): the first position from p on that holds no white space
SkipSpaces(s, p) ==
    IF p <= Len(s) /\ IsSpace(s[p]) THEN SkipSpaces(s, p + 1) ELSE p

RECURSIVE DigitsEnd(_, _)
\* \d* (greedy): the first position from p on that holds no digit
DigitsEnd(s, p) ==
    IF p <= Len(s) /\ IsDigit(s[p]) THEN DigitsEnd(s, p + 1) ELSE p

\* The second word of a two-word token: e1 is where the first word ended,
\* e2 where the white space after it ended (\s+ needs some)
MatchSecond(s, e1, e2, w) == IF e2 = e1 THEN 0 ELSE MatchLit(s, e2, w)

MatchTokenFrom(s, e1, tok) ==
    IF e1 = 0 THEN 0
    ELSE IF Len(tok) = 1 THEN e1
    ELSE MatchSecond(s, e1, SkipSpaces(s, e1), tok[2])

\* word (\s+ word)? : a token at position p; the position after it, or 0
MatchToken(s, p, tok) == MatchTokenFrom(s, MatchLit(s, p, tok[1]), tok)

\* \b between position p - 1 and position p
WordBoundary(s, p) ==
    (p - 1 >= 1 /\ p - 1 <= Len(s) /\ IsWordChar(s[p - 1]))
        # (p >= 1 /\ p <= Len(s) /\ IsWordChar(s[p]))

\* After the digits from p to e: (?:\.\d+)?
ValEnd(s, p, e) ==
    IF e = p THEN 0
    ELSE IF e + 1 <= Len(s) /\ s[e] = "." /\ IsDigit(s[e + 1])
    THEN DigitsEnd(s, e + 1)
    ELSE e

\* (?P<val>\d+(?:\.\d+)?) at position p; the position after it, or 0
MatchVal(s, p) == ValEnd(s, p, DigitsEnd(s, p))

\* The groups captured when the operator group spans p..e-1 and the value
\* v..ve-1
OpValResult(s, p, k, e, v, ve) ==
    IF ve = 0 THEN NoMatch
    ELSE [ok |-> TRUE,
          op |-> IF k > Len(OpAlts) THEN <<>> ELSE SubSeq(s, p, e - 1),
          hasOp |-> k <= Len(OpAlts),
          val |-> SubSeq(s, v, ve - 1)]

OpValSpan(s, p, k, e, v) == OpValResult(s, p, k, e, v, MatchVal(s, v))

OpValFrom(s, p, k, e) ==
    IF e = 0 THEN NoMatch ELSE OpValSpan(s, p, k, e, SkipSpaces(s, e))

\* Alternative k of (?P<op>...)? at position p, then \s*, then the value.
\* k = Len(OpAlts) + 1 is the group left out (it then captures nothing).
\* The closing \s*(?:m|meters?)? matches the empty string wherever it is
\* tried and captures nothing, so it decides neither the match nor a group.
OpValAt(s, p, k) ==
    OpValFrom(s, p, k, IF k > Len(OpAlts) THEN p ELSE MatchToken(s, p, OpAlts[k]))

\* The first of the attempts (indexed by integers, in the order tried) that
\* matched
FirstOk(attempts) ==
    IF \E k \in DOMAIN attempts : attempts[k].ok
    THEN attempts[Min({k \in DOMAIN attempts : attempts[k].ok})]
    ELSE NoMatch

\* The operator group is greedy: its alternatives in order, then its absence
FirstOpVal(s, p) ==
    FirstOk([k \in 1..(Len(OpAlts) + 1) |-> OpValAt(s, p, k)])

\* g characters from position e on exist and none is a digit
GapOK(s, e, g) ==
    /\ e + g - 1 <= Len(s)
    /\ \A j \in e..(e + g - 1) : ~IsDigit(s[j])

\* [^\d]{0,12}? is lazy: the shortest gap after which the rest matches
RestFrom(s, e) ==
    FirstOk([g \in 0..GapMax |->
                IF GapOK(s, e, g) THEN FirstOpVal(s, e + g) ELSE NoMatch])

AnchorEndAt(s, i, e) ==
    IF WordBoundary(s, i) /\ e # 0 /\ WordBoundary(s, e) THEN e ELSE 0

\* \b anchor \b at position i; the position after the anchor, or 0
AnchorEnd(s, i, a) == AnchorEndAt(s, i, MatchToken(s, i, AnchorAlts[a]))

WithAnchor(anchor, r) ==
    IF ~r.ok THEN NoMatch
    ELSE [ok |-> TRUE, anchor |-> anchor,
          op |-> r.op, hasOp |-> r.hasOp, val |-> r.val]

AnchorRest(s, i, e) ==
    IF e = 0 THEN NoMatch ELSE WithAnchor(SubSeq(s, i, e - 1), RestFrom(s, e))

\* The whole pattern at position i: the first anchor alternative after which
\* the rest matches
MatchAt(s, i) ==
    FirstOk([a \in 1..Len(AnchorAlts) |-> AnchorRest(s, i, AnchorEnd(s, i, a))])

\* HEIGHT_REGEX.search: the match at the leftmost position that has one
RegexSearch(s) == FirstOk([i \in 1..Len(s) |-> MatchAt(s, i)])

(***************************************************************************)
(* parse_height_filter                                                     *)
(***************************************************************************)
\* Optional[...]: the value None
None == [none |-> TRUE]

\* A result that has not been computed yet
Pending == [pending |-> TRUE]

IsPending(x) == DOMAIN x = {"pending"}

IsNone(x) == DOMAIN x = {"none"}

RECURSIVE DigitsToNat(_)
DigitsToNat(ds) ==
    IF ds = <<>> THEN 0
    ELSE 10 * DigitsToNat(SubSeq(ds, 1, Len(ds) - 1)) + DigitVal(ds[Len(ds)])

RECURSIVE Pow10(_)
Pow10(k) == IF k = 0 THEN 1 ELSE 10 * Pow10(k - 1)

RECURSIVE NormFrac(_, _)
\* One value, one representation: 45.50 and 45.5 are the same number
NormFrac(n, d) ==
    IF d > 1 /\ n % 10 = 0 THEN NormFrac(n \div 10, d \div 10) ELSE <<n, d>>

\* float(text) for text of the shape \d+(\.\d+)?, as the decimal fraction it
\* denotes (of the few digits used here the double nearest to it compares with
\* every integer height as the fraction itself does)
FloatOf(cs, dots) ==
    IF dots = {}
    THEN <<DigitsToNat(cs), 1>>
    ELSE NormFrac(DigitsToNat(SubSeq(cs, 1, Min(dots) - 1)
                              \o SubSeq(cs, Min(dots) + 1, Len(cs))),
                  Pow10(Len(cs) - Min(dots)))

ParseFloat(cs) == FloatOf(cs, {i \in 1..Len(cs) : cs[i] = "."})

RECURSIVE Strip(_)
\* str.strip()
Strip(s) ==
    IF s = <<>> THEN s
    ELSE IF IsSpace(s[1]) THEN Strip(Tail(s))
    ELSE IF IsSpace(s[Len(s)]) THEN Strip(SubSeq(s, 1, Len(s) - 1))
    ELSE s

\* one word, or two words with a single space between them
Phrase(tok) ==
    IF Len(tok) = 1 THEN tok[1] ELSE tok[1] \o <<" ">> \o tok[2]

\* textual_map, key by key
textual_map ==
    << <<S.GT, ">">>, <<S.GE, ">=">>, <<S.LT, "<">>, <<S.LE, "<=">>,
       <<S.EQ, "==">>, <<S.EQEQ, "==">>,
       <<Phrase(<<W.greater, W.than>>), ">">>, <<W.greater, ">">>,
       <<W.above, ">">>, <<W.over, ">">>,
       <<Phrase(<<W.at, W.least>>), ">=">>,
       <<Phrase(<<W.less, W.than>>), "<">>, <<W.less, "<">>,
       <<W.below, "<">>, <<W.under, "<">>,
       <<Phrase(<<W.at, W.most>>), "<=">>,
       <<W.exactly, "==">> >>

\* textual_map.get(key, default)
MapGet(key, default) ==
    IF \E i \in 1..Len(textual_map) : textual_map[i][1] = key
    THEN textual_map[Min({i \in 1..Len(textual_map) : textual_map[i][1] = key})][2]
    ELSE default

\* The operator an anchor word implies when no operator was captured
AnchorOp(anchor) ==
    IF anchor \in {W.tall, W.taller, W.height, W.greater, W.above, W.over}
    THEN ">"
    ELSE IF anchor \in {W.less, W.below, W.under}
    THEN "<"
    ELSE "=="

\* The operator: from the token captured, or else from the anchor word
OperatorOf(raw_op, m) ==
    IF raw_op = <<>>
    THEN AnchorOp(LowerStr(m.anchor))
    ELSE MapGet(raw_op, "==")

\* parse_height_filter from the match on
FilterOf(m) ==
    IF ~m.ok THEN None
    ELSE [op  |-> OperatorOf(LowerStr(Strip(IF m.hasOp THEN m.op ELSE <<>>)), m),
          val |-> ParseFloat(m.val)]

parse_height_filter(query) ==
    IF query = <<>> THEN None ELSE FilterOf(RegexSearch(query))

(***************************************************************************)
(* Query texts for the parser run: anchor, gap, operator token, white      *)
(* space, number (and unit), each drawn from a small pool.                 *)
(***************************************************************************)
\* What stands between the two words of a two-word token
SepPool == << <<" ">>, <<" ", " ">>, <<"\t">> >>

GapPool == << <<>>, <<" ">>, <<" ", "i", "s", " ">> >>

WsPool == << <<>>, <<" ">> >>

\* The number, with or without a unit after it
NumPool ==
    << <<"4", "5">>, <<"4", ".", "5">>,
       <<"4", "5", " ", "m", "e", "t", "e", "r", "s">> >>

\* Texts that are not put together from the pools
ExtraTexts ==
    << <<>>,
       <<"s", "h", "o", "w", " ", "a", "l", "l">>,
       <<"h", "e", "i", "g", "h", "t", "3", "0">>,
       <<"t", "a", "l", "l", "e", "r", " ", "t", "h", "a", "n", " ", "3", "0", "m">>,
       <<"l", "e", "s", "s", " ", "t", "h", "a", "n", " ", "5">>,
       <<"h", "e", "i", "g", "h", "t", "_", "x", " ", "3">>,
       <<"a", "b", "o", "v", "e", " ", "2", "0", " ", "a", "n", "d", " ",
         "b", "e", "l", "o", "w", " ", "8", "0">> >>

Cased(w, case) == IF case = "upper" THEN UpperStr(w) ELSE w

\* A token written out with the given separator and letter case
Written(tok, sep, case) ==
    IF Len(tok) = 1 THEN Cased(tok[1], case)
    ELSE Cased(tok[1], case) \o sep \o Cased(tok[2], case)

Assemble(g) ==
    IF g.kind = "extra" THEN ExtraTexts[g.extra]
    ELSE Written(AnchorAlts[g.anchor], SepPool[g.sep], g.case)
         \o GapPool[g.gap]
         \o (IF g.op = 0 THEN <<>> ELSE Written(OpAlts[g.op], SepPool[g.sep], g.case))
         \o WsPool[g.ws] \o NumPool[g.num]

TwoWord(g) ==
    \/ Len(AnchorAlts[g.anchor]) = 2
    \/ g.op # 0 /\ Len(OpAlts[g.op]) = 2

Gens ==
    {g \in [kind : {"built"}, extra : {0},
            anchor : 1..Len(AnchorAlts), op : 0..Len(OpAlts),
            sep : 1..Len(SepPool), case : {"lower", "upper"},
            gap : 1..Len(GapPool), ws : 1..Len(WsPool),
            num : 1..Len(NumPool)] :
        /\ g.sep = 1 \/ TwoWord(g)
        /\ g.sep = 1 \/ g.case = "lower"}
    \cup
    [kind : {"extra"}, extra : 1..Len(ExtraTexts),
     anchor : {0}, op : {0}, sep : {1}, case : {"lower"},
     gap : {1}, ws : {1}, num : {1}]

(***************************************************************************)
(* Double-precision arithmetic, as far as height_to_color uses it.         *)
(* A magnitude is a 4-limb number N (least significant limb first, limbs   *)
(* of 20 bits) standing for N / 2^60; a double is a magnitude with at most *)
(* 53 significant bits.  The integers met here are small, so their         *)
(* differences are exact and every quotient lies between 2^-7 and 1.       *)
(***************************************************************************)
RECURSIVE Pow2(_)
Pow2(k) == IF k = 0 THEN 1 ELSE 2 * Pow2(k - 1)

\* The limb base
LimbBase == Pow2(20)

RECURSIVE BitLenInt(_)
BitLenInt(x) == IF x = 0 THEN 0 ELSE 1 + BitLenInt(x \div 2)

\* k as a magnitude
BigFromInt(k) == <<0, 0, 0, k>>

BigIntPart(n) == n[4]

BigBitLen(n) ==
    IF n[4] # 0 THEN 60 + BitLenInt(n[4])
    ELSE IF n[3] # 0 THEN 40 + BitLenInt(n[3])
    ELSE IF n[2] # 0 THEN 20 + BitLenInt(n[2])
    ELSE BitLenInt(n[1])

\* n * c for a small integer c
BigMulSmall(n, c) ==
    LET p1 == n[1] * c
        p2 == n[2] * c + (p1 \div LimbBase)
        p3 == n[3] * c + (p2 \div LimbBase)
        p4 == n[4] * c + (p3 \div LimbBase)
    IN  <<p1 % LimbBase, p2 % LimbBase, p3 % LimbBase, p4>>

\* floor(n / b) for a small integer b, and whether the division was inexact
BigDivSmall(n, b) ==
    LET t4 == n[4]
        t3 == (t4 % b) * LimbBase + n[3]
        t2 == (t3 % b) * LimbBase + n[2]
        t1 == (t2 % b) * LimbBase + n[1]
    IN  [q |-> <<t1 \div b, t2 \div b, t3 \div b, t4 \div b>>,
         inexact |-> t1 % b # 0]

\* m - n, for m >= n
BigSub(m, n) ==
    LET d1 == m[1] - n[1]
        b1 == IF d1 < 0 THEN 1 ELSE 0
        d2 == m[2] - n[2] - b1
        b2 == IF d2 < 0 THEN 1 ELSE 0
        d3 == m[3] - n[3] - b2
        b3 == IF d3 < 0 THEN 1 ELSE 0
    IN  <<d1 + b1 * LimbBase, d2 + b2 * LimbBase, d3 + b3 * LimbBase,
          m[4] - n[4] - b3>>

\* n + k for a small integer k
BigAddSmall(n, k) ==
    LET s1 == n[1] + k
        s2 == n[2] + (s1 \div LimbBase)
        s3 == n[3] + (s2 \div LimbBase)
    IN  <<s1 % LimbBase, s2 % LimbBase, s3 % LimbBase,
          n[4] + (s3 \div LimbBase)>>

\* Round to nearest, ties to even, to 53 significant bits.  `inexact` says
\* that the exact value lies strictly above n (bits below 2^-60 were cut).
\* The bits dropped lie in the lowest limb: a magnitude below 2^12 has at
\* most 72 bits.  unit is the weight of the last bit kept, low the bits
\* dropped.
RoundAt(n, inexact, unit, low) ==
    IF \/ 2 * low > unit
       \/ 2 * low = unit /\ (inexact \/ (n[1] \div unit) % 2 = 1)
    THEN BigAddSmall(<<n[1] - low, n[2], n[3], n[4]>>, unit)
    ELSE <<n[1] - low, n[2], n[3], n[4]>>

RoundUnit(n, inexact, unit) == RoundAt(n, inexact, unit, n[1] % unit)

RoundBits(n, inexact, d) ==
    IF d <= 0 THEN n ELSE RoundUnit(n, inexact, Pow2(d))

RoundDouble(n, inexact) == RoundBits(n, inexact, BigBitLen(n) - 53)

RoundQuotient(d) == RoundDouble(d.q, d.inexact)

\* a / b in double arithmetic, for integers 0 < a <= b
FloatDiv(a, b) == RoundQuotient(BigDivSmall(BigFromInt(a), b))

\* c * x in double arithmetic, for a small integer c
FloatMulSmall(c, x) == RoundDouble(BigMulSmall(x, c), FALSE)

\* 1 - x in double arithmetic, for 0 <= x <= 1
FloatOneMinus(x) == RoundDouble(BigSub(BigFromInt(1), x), FALSE)

(***************************************************************************)
(* Attribute values.  A value is [k |-> kind, v |-> payload]; the kind is  *)
(* the Python type of the object, with "nan" for a float that is NaN and   *)
(* "nat" for pandas' NaT.  Floats of the model are whole numbers.          *)
(***************************************************************************)
Val(k, v) == [k |-> k, v |-> v]

NoneVal == Val("none", 0)

NaN == Val("nan", 0)

Num(v) == Val("float", v)

\* a number that is not NaN
IsNum(x) == x.k \in {"int", "float"}

(***************************************************************************)
(* height_to_color                                                         *)
(***************************************************************************)
HexDigits ==
    <<"0", "1", "2", "3", "4", "5", "6", "7", "8", "9",
      "a", "b", "c", "d", "e", "f">>

\* format(n, "02x") for 0 <= n <= 255
Hex2(n) == HexDigits[(n \div 16) + 1] \o HexDigits[(n % 16) + 1]

SentinelColour == "#1f78b4"

\* ratio = max(0.0, min(1.0, (height - low) / (high - low))), for low < high
ClampedRatio(height, low, high) ==
    IF height - low <= 0 THEN BigFromInt(0)
    ELSE IF height - low >= high - low THEN BigFromInt(1)
    ELSE FloatDiv(height - low, high - low)

\* int(255 * ratio)
RedChannel(ratio) == BigIntPart(FloatMulSmall(255, ratio))

\* The green channel as the complement of the red one: g = 255 - r
GreenChannelComplement(ratio) == 255 - RedChannel(ratio)

\* int(255 * (1 - ratio))
GreenChannel(ratio) == BigIntPart(FloatMulSmall(255, FloatOneMinus(ratio)))

BlueChannel == 0

\* f"#{r:02x}{g:02x}{b:02x}"
ColourOf(ratio) ==
    "#" \o Hex2(RedChannel(ratio)) \o Hex2(GreenChannel(ratio))
        \o Hex2(BlueChannel)

\* height, low_h and high_h are values; low_h and high_h are numbers
\* whenever height is one (an all-NaN column gives NaN limits and a NaN height)
height_to_color(height, low_h, high_h) ==
    IF ~IsNum(height) THEN SentinelColour
    ELSE IF high_h.v = low_h.v THEN SentinelColour
    ELSE ColourOf(ClampedRatio(height.v, low_h.v, high_h.v))

(***************************************************************************)
(* normalize_property                                                      *)
(***************************************************************************)
\* The classes each kind of value is an instance of, of those the function
\* tests for (bool is a subclass of int; the abstract numbers.Integral and
\* numbers.Real have int, bool and the numpy numbers registered)
ClassesOf ==
    [none      |-> {"NoneType"},
     nan       |-> {"float", "numbers.Real"},
     nat       |-> {"NaTType"},
     int       |-> {"int", "numbers.Integral", "numbers.Real"},
     npint     |-> {"np.integer", "numbers.Integral", "numbers.Real"},
     float     |-> {"float", "numbers.Real"},
     npfloat   |-> {"np.floating", "float", "numbers.Real"},
     bool      |-> {"bool", "int", "numbers.Integral", "numbers.Real"},
     npbool    |-> {"np.bool_"},
     timestamp |-> {"pd.Timestamp"},
     str       |-> {"str"},
     list      |-> {"list"},
     dict      |-> {"dict"}]

\* isinstance(x, classes)
IsInstance(x, classes) == ClassesOf[x.k] \cap classes # {}

\* pandas' test of one scalar for being missing
CheckNull(x) == x.k \in {"none", "nan", "nat"}

\* pd.isna(v): a boolean for a scalar, an array of booleans (one for each
\* element) for a list, False for any other object
pd_isna(v) ==
    IF v.k = "list"
    THEN [array |-> TRUE, items |-> [i \in 1..Len(v.v) |-> CheckNull(v.v[i])]]
    ELSE IF v.k = "dict"
    THEN [array |-> FALSE, items |-> <<FALSE>>]
    ELSE [array |-> FALSE, items |-> <<CheckNull(v)>>]

\* What `if x:` makes of the result of pd.isna: "true" or "false", or
\* "raise" where bool(x) raises ValueError.  The truth value of an array of
\* two or more elements is ambiguous; that of an empty array is False in some
\* numpy releases and an error in others.
Truth(b) == IF b THEN "true" ELSE "false"

TruthOutcomes(x) ==
    IF ~x.array THEN {Truth(x.items[1])}
    ELSE IF Len(x.items) = 0 THEN {"false", "raise"}
    ELSE IF Len(x.items) = 1 THEN {Truth(x.items[1])}
    ELSE {"raise"}

Returned(v) == [raised |-> FALSE, value |-> v]

Raised == [raised |-> TRUE, value |-> NoneVal]

Pad(n, width) ==
    IF width = 4
    THEN (IF n < 10 THEN "000" ELSE IF n < 100 THEN "00"
          ELSE IF n < 1000 THEN "0" ELSE "") \o ToString(n)
    ELSE (IF n < 10 THEN "0" ELSE "") \o ToString(n)

\* Timestamp.isoformat() of a date at midnight, <<year, month, day>>
IsoFormat(d) ==
    Pad(d[1], 4) \o "-" \o Pad(d[2], 2) \o "-" \o Pad(d[3], 2) \o "T00:00:00"

\* The branches after the two tests for a missing value
NormalizeBranches(v) ==
    IF IsInstance(v, {"np.integer", "numbers.Integral"})
    THEN Val("int", IF v.k = "bool" THEN (IF v.v THEN 1 ELSE 0) ELSE v.v)
    ELSE IF IsInstance(v, {"np.floating", "numbers.Real"})
    THEN Val("float", v.v)
    ELSE IF IsInstance(v, {"pd.Timestamp"})
    THEN Val("str", IsoFormat(v.v))
    ELSE IF IsInstance(v, {"np.bool_", "bool"})
    THEN Val("bool", v.v)
    ELSE v

\* The outcomes of normalize_property(v): what it returns, or that it raises
normalize_property(v) ==
    IF v.k = "none" THEN {Returned(NoneVal)}
    ELSE {IF t = "raise" THEN Raised
          ELSE IF t = "true" THEN Returned(NoneVal)
          ELSE Returned(NormalizeBranches(v)) : t \in TruthOutcomes(pd_isna(v))}

(***************************************************************************)
(* Data frames.  A frame is [cols |-> the column names, rows |-> a         *)
(* sequence of rows, each a function from the column names to values].     *)
(* Frames are objects: the heap maps object identifiers to frames, and a   *)
(* variable of the program holds an identifier.                            *)
(***************************************************************************)
\* BUILDINGS_GDF = None
NoRef == "None"

\* The object load_buildings publishes in BUILDINGS_GDF
SharedRef == "buildings"

\* Objects a request creates: gdf[mask], its copy, the copy to be coloured
MaskRef == "masked"

FilteredRef == "filtered"

ColouredRef == "coloured"

EmptyHeap == [o \in {SharedRef} |-> [cols |-> {}, rows |-> <<>>]]

\* hp with object o set to frame f
Store(hp, o, f) ==
    [x \in DOMAIN hp \cup {o} |-> IF x = o THEN f ELSE hp[x]]

\* gdf.copy(): a new object, equal to the one copied
Alias(hp, ref, new) == [heap |-> hp, ref |-> ref]

Copy(hp, ref, new) == [heap |-> Store(hp, new, hp[ref]), ref |-> new]

\* The frame f with the column col set to values
WithColumn(f, col, values) ==
    [cols |-> f.cols \cup {col},
     rows |-> [i \in 1..Len(f.rows) |->
                  [c \in f.cols \cup {col} |->
                      IF c = col THEN values[i] ELSE f.rows[i][c]]]]

\* gdf[col] = values, in place
SetColumn(hp, ref, col, values) ==
    Store(hp, ref, WithColumn(hp[ref], col, values))

\* The column gdf[col]
Column(f, col) == [i \in 1..Len(f.rows) |-> f.rows[i][col]]

RECURSIVE SelectMask(_, _)
\* The items of a sequence a boolean mask keeps, in their order
SelectMask(items, mask) ==
    IF items = <<>> THEN <<>>
    ELSE (IF mask[1] THEN <<items[1]>> ELSE <<>>)
         \o SelectMask(Tail(items), Tail(mask))

\* A text read from the file is a sequence of characters.  A text of digits
\* reads as the integer it writes; the other texts of the model ("n/a") do
\* not read as numbers.
IsDigitText(t) == t # <<>> /\ DigitsEnd(t, 1) = Len(t) + 1

\* One entry read as a number, or NaN (errors="coerce")
ReadNumber(x) ==
    IF x.k \in {"int", "float"} THEN x
    ELSE IF x.k = "str" /\ IsDigitText(x.v) THEN Val("int", DigitsToNat(x.v))
    ELSE NaN

\* A column of integers stays one; any other becomes a column of floats
Unified(read) ==
    [i \in 1..Len(read) |->
        IF (\A j \in 1..Len(read) : read[j].k = "int") \/ read[i].k # "int"
        THEN read[i]
        ELSE Num(read[i].v)]

\* pd.to_numeric(column, errors="coerce")
ToNumeric(col) == Unified([i \in 1..Len(col) |-> ReadNumber(col[i])])

\* series.dropna()
DropNa(col) == SelectMask(col, [i \in 1..Len(col) |-> IsNum(col[i])])

\* series.min(), series.max() of a series without NaN; NaN if it is empty
SeriesMin(col) ==
    IF col = <<>> THEN NaN
    ELSE Num(Min({col[i].v : i \in 1..Len(col)}))

SeriesMax(col) ==
    IF col = <<>> THEN NaN
    ELSE Num(Max({col[i].v : i \in 1..Len(col)}))

(***************************************************************************)
(* apply_height_filter, add_colour_column                                  *)
(***************************************************************************)
\* A comparison that reads a missing height as 0: heights.fillna(0) <op> val
CompareFilled(op, h, val) ==
    CASE op = ">"  -> (IF IsNum(h) THEN h.v ELSE 0) * val[2] > val[1]
      [] op = ">=" -> (IF IsNum(h) THEN h.v ELSE 0) * val[2] >= val[1]
      [] op = "<"  -> (IF IsNum(h) THEN h.v ELSE 0) * val[2] < val[1]
      [] op = "<=" -> (IF IsNum(h) THEN h.v ELSE 0) * val[2] <= val[1]
      [] OTHER     -> (IF IsNum(h) THEN h.v ELSE 0) * val[2] = val[1]

\* height <op> val for one entry of the series; val is <<numerator,
\* denominator>>.  Every comparison with NaN is false.
Compare(op, h, val) ==
    /\ IsNum(h)
    /\ CASE op = ">"  -> h.v * val[2] > val[1]
         [] op = ">=" -> h.v * val[2] >= val[1]
         [] op = "<"  -> h.v * val[2] < val[1]
         [] op = "<=" -> h.v * val[2] <= val[1]
         [] OTHER     -> h.v * val[2] = val[1]

\* heights <op> val
MaskOf(filt, heights) ==
    [i \in 1..Len(heights) |-> Compare(filt.op, heights[i], filt.val)]

\* gdf[mask]
Taken(f, mask) == [cols |-> f.cols, rows |-> SelectMask(f.rows, mask)]

\* The heap after the call and the object returned
apply_height_filter(hp, gdf, filt) ==
    IF IsNone(filt) THEN Copy(hp, gdf, FilteredRef)
    ELSE Copy(Store(hp, MaskRef,
                    Taken(hp[gdf],
                          MaskOf(filt, ToNumeric(Column(hp[gdf], "height"))))),
              MaskRef, FilteredRef)

\* The colour of each row, from its numeric height and the limits
ColoursOf(numeric, low, high) ==
    [i \in 1..Len(numeric) |->
        Val("str", IF IsNum(numeric[i])
                   THEN height_to_color(numeric[i], low, high)
                   ELSE SentinelColour)]

\* gdf["color"] = ..., with heights the numeric heights that are not NaN
ColourRows(hp, gdf, numeric, heights) ==
    [heap |-> SetColumn(hp, gdf, "color",
                        IF heights = <<>>
                        THEN [i \in 1..Len(numeric) |-> Val("str", SentinelColour)]
                        ELSE ColoursOf(numeric, SeriesMin(heights),
                                       SeriesMax(heights))),
     ref |-> gdf]

\* Colours on the range of the whole dataset instead of that of gdf
ColourFrameWhole(hp, gdf, numeric) ==
    ColourRows(SetColumn(hp, gdf, "height_numeric", numeric), gdf, numeric,
               DropNa(ToNumeric(Column(hp[SharedRef], "height"))))

\* gdf["height_numeric"] = ..., and on
ColourFrame(hp, gdf, numeric) ==
    ColourRows(SetColumn(hp, gdf, "height_numeric", numeric), gdf, numeric,
               DropNa(numeric))

\* add_colour_column after gdf = gdf.copy()
ColourCopy(c) ==
    ColourFrame(c.heap, c.ref, ToNumeric(Column(c.heap[c.ref], "height")))

add_colour_column(hp, gdf) == ColourCopy(Copy(hp, gdf, ColouredRef))

(***************************************************************************)
(* Number formatting                                                       *)
(***************************************************************************)
RECURSIVE Grouped(_)
\* format(n, ","): thousands grouped
Grouped(n) ==
    IF n < 1000 THEN ToString(n)
    ELSE Grouped(n \div 1000) \o ","
         \o (IF n % 1000 < 10 THEN "00" ELSE IF n % 1000 < 100 THEN "0" ELSE "")
         \o ToString(n % 1000)

RECURSIVE ZeroPadded(_, _)
\* n written with k digits
ZeroPadded(n, k) ==
    IF k = 0 THEN "" ELSE ZeroPadded(n \div 10, k - 1) \o ToString(n % 10)

RECURSIVE Log10(_)
Log10(d) == IF d = 1 THEN 0 ELSE 1 + Log10(d \div 10)

\* str(x) of a float x = val[1] / val[2]: the shortest decimal that reads
\* back as x
FloatRepr(val) ==
    IF val[2] = 1 THEN ToString(val[1]) \o ".0"
    ELSE ToString(val[1] \div val[2]) \o "."
         \o ZeroPadded(val[1] % val[2], Log10(val[2]))

\* format(n / d, ".1f") for n >= 0: one decimal, an exact tie to the even
\* digit.  The quotients formatted are means of at most four whole numbers:
\* a tie (.25, .75) is then a double, and any other quotient lies far from a
\* tie.
Fixed1(n, d) ==
    LET q  == (10 * n) \div d
        r  == (10 * n) % d
        q1 == IF 2 * r > d \/ (2 * r = d /\ q % 2 = 1) THEN q + 1 ELSE q
    IN  ToString(q1 \div 10) \o "." \o ToString(q1 % 10)

RECURSIVE SumSeq(_)
SumSeq(col) == IF col = <<>> THEN 0 ELSE col[1].v + SumSeq(Tail(col))

(***************************************************************************)
(* build_insights                                                          *)
(***************************************************************************)
op_text(op) ==
    CASE op = ">"  -> "greater than"
      [] op = ">=" -> "at least"
      [] op = "<"  -> "less than"
      [] op = "<=" -> "up to"
      [] op = "==" -> "exactly"

\* The dash of the third sentence (an en dash in the source)
Dash == "-"

\* The three sentences; h is the numeric heights of the result without NaN
InsightsOf(filtered, filt, total, h) ==
    <<IF IsNone(filt) THEN "Showing all buildings."
      ELSE "Showing buildings with height " \o op_text(filt.op)
           \o " " \o FloatRepr(filt.val) \o " m.",
      Grouped(Len(filtered.rows)) \o " of " \o Grouped(total)
           \o " buildings match the query.">>
    \o (IF filtered.rows # <<>> /\ "height" \in filtered.cols /\ h # <<>>
        THEN <<"Height range in result: "
               \o Fixed1(SeriesMin(h).v, 1) \o " m " \o Dash \o " "
               \o Fixed1(SeriesMax(h).v, 1) \o " m (average "
               \o Fixed1(SumSeq(h), Len(h)) \o " m)">>
        ELSE <<>>)

\* Insights that count the total on the result: len(filtered) for total
build_insights_of_result(filtered, filt, total) ==
    InsightsOf(filtered, filt, Len(filtered.rows),
               IF "height" \in filtered.cols
               THEN DropNa(ToNumeric(Column(filtered, "height")))
               ELSE <<>>)

build_insights(filtered, filt, total) ==
    InsightsOf(filtered, filt, total,
               IF "height" \in filtered.cols
               THEN DropNa(ToNumeric(Column(filtered, "height")))
               ELSE <<>>)

(***************************************************************************)
(* query_geo                                                               *)
(***************************************************************************)
NoBody == [none |-> TRUE]

\* raise HTTPException(status_code=500, detail=...), and what the framework
\* answers when the handler raises anything else
HttpError(detail) == [status |-> 500, detail |-> detail, body |-> NoBody]

HttpOk(body) == [status |-> 200, detail |-> "", body |-> body]

\* row.geometry.__geo_interface__, or None for no geometry
GeoInterface(g) ==
    IF g.k = "none" THEN NoneVal ELSE Val("geojson", [type |-> "Polygon", bbox |-> g.v])

\* One row as a feature.  The attributes of the model are scalars, of which
\* normalize_property has one outcome each.
Feature(row) ==
    LET keys == DOMAIN row \ {"geometry", "height_numeric"}
    IN  [type |-> "Feature",
         properties |-> [k \in keys |->
                            (CHOOSE o \in normalize_property(row[k]) : TRUE).value],
         geometry |-> GeoInterface(row["geometry"])]

\* Does normalizing some attribute of the frame raise?
NormalizeRaises(f) ==
    \E i \in 1..Len(f.rows) : \E k \in DOMAIN f.rows[i] \ {"geometry", "height_numeric"} :
        Raised \in normalize_property(f.rows[i][k])

\* gdf.total_bounds of a frame with rows: [minx, miny, maxx, maxy]
TotalBounds(f) ==
    LET box(i) == f.rows[i]["geometry"].v
        I      == 1..Len(f.rows)
    IN  <<Min({box(i)[1] : i \in I}), Min({box(i)[2] : i \in I}),
          Max({box(i)[3] : i \in I}), Max({box(i)[4] : i \in I})>>

DefaultBounds == <<0, 0, 1, 1>>

\* Step 7: the legend, from the lowest and highest numeric height
LegendOf(low_h, high_h) ==
    [low  |-> height_to_color(low_h, low_h, high_h),
     high |-> height_to_color(high_h, low_h, high_h)]

\* Steps 4 to 7 and the response, from the coloured frame; h is its numeric
\* heights without NaN
Assemble_response(coloured, height_filt, total, h) ==
    HttpOk([features |-> [i \in 1..Len(coloured.rows) |-> Feature(coloured.rows[i])],
            bounds   |-> IF coloured.rows # <<>> THEN TotalBounds(coloured)
                         ELSE DefaultBounds,
            insights |-> build_insights(coloured, height_filt, total),
            color_legend |-> IF coloured.rows # <<>>
                             THEN LegendOf(SeriesMin(h), SeriesMax(h))
                             ELSE [low |-> SentinelColour, high |-> SentinelColour]])

\* What a call of the handler leaves: the response, the heap, and the values
\* of the locals height_filt and filtered_gdf
Outcome(resp, hp, height_filt, filtered) ==
    [resp |-> resp, heap |-> hp, height_filt |-> height_filt,
     filtered |-> filtered]

\* Steps 4 to 7, with c the coloured frame and its heap
Respond(buildings, height_filt, filtered, c) ==
    IF NormalizeRaises(c.heap[c.ref])
    THEN Outcome(HttpError("Internal Server Error"), c.heap, height_filt, filtered)
    ELSE Outcome(Assemble_response(c.heap[c.ref], height_filt,
                                   Len(c.heap[buildings].rows),
                                   DropNa(ToNumeric(Column(c.heap[c.ref], "height")))),
                 c.heap, height_filt, filtered)

\* Step 3, with f the filtered frame and its heap
Colour(buildings, height_filt, f) ==
    Respond(buildings, height_filt, f.heap[f.ref],
            add_colour_column(f.heap, f.ref))

\* Step 2.  A frame without the column raises KeyError at gdf["height"],
\* which the framework answers with status 500.
Filter(hp, buildings, height_filt) ==
    IF "height" \notin hp[buildings].cols
    THEN Outcome(HttpError("Internal Server Error"), hp, height_filt, NoBody)
    ELSE Colour(buildings, height_filt,
                apply_height_filter(hp, buildings, height_filt))

\* The texts clients send
QueryTexts ==
    << <<"s", "h", "o", "w", " ", "a", "l", "l", " ", "b", "u", "i", "l", "d", "i", "n", "g", "s">>,
       <<"h", "e", "i", "g", "h", "t", " ", ">", " ", "4", "0">>,
       <<"h", "e", "i", "g", "h", "t", " ", ">", "=", " ", "5", "0">>,
       <<"h", "e", "i", "g", "h", "t", " ", "<", " ", "5", "0">>,
       <<"h", "e", "i", "g", "h", "t", " ", "<", "=", " ", "5", "0">>,
       <<"h", "e", "i", "g", "h", "t", " ", "e", "x", "a", "c", "t", "l", "y", " ", "5", "0">>,
       <<"t", "a", "l", "l", "e", "r", " ", "t", "h", "a", "n", " ", "9", "0", "m">> >>

\* parse_height_filter on each of these texts, worked out once
ParsedTexts ==
    [text \in {QueryTexts[t] : t \in 1..Len(QueryTexts)} |->
        parse_height_filter(text)]

\* The handler on the text `text`
query_geo(hp, buildings, text) ==
    IF buildings = NoRef
    THEN Outcome(HttpError("Buildings dataset not loaded"), hp, None, NoBody)
    ELSE Filter(hp, buildings, ParsedTexts[text])

(***************************************************************************)
(* load_buildings                                                          *)
(***************************************************************************)
EmptyFrame == [cols |-> {}, rows |-> <<>>]

\* "height" in gdf.columns
HasHeightColumn(gdf) == "height" \in gdf.cols

\* gdf["height"] = pd.to_numeric(gdf["height"], errors="coerce")
NormalizeHeight(gdf) ==
    LET numeric == ToNumeric(Column(gdf, "height"))
    IN  [cols |-> gdf.cols,
         rows |-> [i \in 1..Len(gdf.rows) |->
                      [c \in gdf.cols |->
                          IF c = "height" THEN numeric[i] ELSE gdf.rows[i][c]]]]

(***************************************************************************)
(* The states the runs start in                                            *)
(***************************************************************************)
\* The largest number of records in the file
MaxRecords == 3

\* The number of requests
NReq == 2

\* The largest absolute value of a number handed to normalize_property
MaxNum == 3

\* The longest list handed to normalize_property
MaxListLen == 2

\* The widest range of heights handed to height_to_color
MaxWidth == 20

\* The largest low end of such a range
MaxLow == 2

\* The heights written in the file
RawHeights ==
    {Val("int", 10), Val("int", 50), Val("int", 90),
     Val("str", <<"n", "/", "a">>), NoneVal}

\* Record i of the file, with the given height attribute (or none)
RawRow(i, h) ==
    [id |-> Val("int", i), height |-> h,
     geometry |-> Val("geom", <<i, 0, i + 1, 1>>)]

RawFrame(hs) ==
    [cols |-> {"id", "height", "geometry"},
     rows |-> [i \in 1..Len(hs) |-> RawRow(i, hs[i])]]

RawFrames ==
    UNION {{RawFrame(hs) : hs \in [1..n -> RawHeights]} : n \in 0..MaxRecords}

\* Files without a height attribute: one of a record that lacks it, and one
\* of no records, which reads as a frame of the geometry column alone
FramesWithoutHeight ==
    {[cols |-> {"id", "geometry"},
      rows |-> <<[id |-> Val("int", 1), geometry |-> Val("geom", <<1, 0, 2, 1>>)]>>],
     [cols |-> {"geometry"}, rows |-> <<>>]}

\* The file: absent, unreadable, or holding a frame
FileSystems ==
    {[exists |-> FALSE, readable |-> FALSE, frame |-> EmptyFrame],
     [exists |-> TRUE, readable |-> FALSE, frame |-> EmptyFrame]}
    \cup {[exists |-> TRUE, readable |-> TRUE, frame |-> f] :
             f \in RawFrames \cup FramesWithoutHeight}

ElemPool == {Val("int", 1), NoneVal, Val("str", "a")}

\* The values handed to normalize_property
NormInputs ==
    {NoneVal, NaN, Val("nat", 0), Val("dict", [name |-> "a"])}
    \cup {Val(k, n) : k \in {"int", "npint", "float", "npfloat"},
                      n \in (0 - MaxNum)..MaxNum}
    \cup {Val(k, b) : k \in {"bool", "npbool"}, b \in BOOLEAN}
    \cup {Val("timestamp", d) : d \in {<<2024, 1, 5>>, <<1999, 12, 31>>}}
    \cup {Val("str", t) : t \in {"", "brick"}}
    \cup {Val("list", l) : l \in UNION {[1..n -> ElemPool] : n \in 0..MaxListLen}}

\* The arguments handed to height_to_color
ColourInputs ==
    UNION {{[height |-> h, low |-> Num(l), high |-> Num(l + w)] :
               h \in {NaN} \cup {Num(x) : x \in (l - 1)..(l + w + 1)}} :
           l \in 0..MaxLow, w \in 0..MaxWidth}

IdleParse == qgen = Pending /\ qtext = <<>> /\ parsed = Pending

IdleNorm == nval = NoneVal /\ nres = Pending

IdleColour == cin = Pending /\ cout = Pending

IdleServer ==
    /\ fs = [exists |-> FALSE, readable |-> FALSE, frame |-> EmptyFrame]
    /\ ldpc = "off"
    /\ ld_gdf = EmptyFrame
    /\ BUILDINGS_GDF = NoRef
    /\ heap = <<>>
    /\ reqs = <<>>

(***************************************************************************)
(* The server: load_buildings at startup, and the /query handler           *)
(***************************************************************************)
InitServer ==
    /\ fs \in FileSystems
    /\ ldpc = "start"
    /\ ld_gdf = EmptyFrame
    /\ BUILDINGS_GDF = NoRef
    /\ heap = <<>>
    /\ reqs = <<>>

Init == InitServer /\ IdleParse /\ IdleNorm /\ IdleColour

\* A loader that assigns the global as soon as the file is read, before the
\* height column is checked and made numeric
LoadReadPublishing ==
    /\ ldpc = "start"
    /\ IF fs.exists /\ fs.readable
       THEN /\ ldpc' = "read"
            /\ ld_gdf' = fs.frame
            /\ heap' = Store(heap, SharedRef, fs.frame)
            /\ BUILDINGS_GDF' = SharedRef
       ELSE ldpc' = "failed" /\ UNCHANGED <<ld_gdf, heap, BUILDINGS_GDF>>
    /\ UNCHANGED <<fs, reqs>>
    /\ UNCHANGED <<parseVars, normVars, colourVars>>

\* load_buildings up to gpd.read_file: the file must exist and be readable
LoadRead ==
    /\ ldpc = "start"
    /\ IF fs.exists /\ fs.readable
       THEN ldpc' = "read" /\ ld_gdf' = fs.frame
       ELSE ldpc' = "failed" /\ UNCHANGED ld_gdf
    /\ UNCHANGED <<fs, BUILDINGS_GDF, heap, reqs>>
    /\ UNCHANGED <<parseVars, normVars, colourVars>>

\* load_buildings from the check of the height column to the assignment of
\* the global
LoadPublish ==
    /\ ldpc = "read"
    /\ IF HasHeightColumn(ld_gdf)
       THEN /\ ldpc' = "done"
            /\ ld_gdf' = NormalizeHeight(ld_gdf)
            /\ heap' = Store(heap, SharedRef, NormalizeHeight(ld_gdf))
            /\ BUILDINGS_GDF' = SharedRef
       ELSE /\ ldpc' = "failed"
            /\ UNCHANGED <<ld_gdf, heap, BUILDINGS_GDF>>
    /\ UNCHANGED <<fs, reqs>>
    /\ UNCHANGED <<parseVars, normVars, colourVars>>

\* One request, handled from start to end.  The objects the handler created
\* die with it; the heap keeps those the global reaches.
Handled(t, q) ==
    /\ reqs' = Append(reqs, [text |-> t, loader |-> ldpc, resp |-> q.resp,
                             height_filt |-> q.height_filt,
                             filtered |-> q.filtered])
    /\ heap' = [o \in DOMAIN heap |-> q.heap[o]]

Query ==
    /\ ldpc # "off"
    /\ Len(reqs) < NReq
    /\ \E t \in 1..Len(QueryTexts) :
          Handled(t, query_geo(heap, BUILDINGS_GDF, QueryTexts[t]))
    /\ UNCHANGED <<fs, ldpc, ld_gdf, BUILDINGS_GDF>>
    /\ UNCHANGED <<parseVars, normVars, colourVars>>

Next == LoadRead \/ LoadPublish \/ Query

Spec == Init /\ [][Next]_vars

(***************************************************************************)
(* parse_height_filter on its own                                          *)
(***************************************************************************)
InitParse ==
    /\ qgen \in Gens
    /\ qtext = Assemble(qgen)
    /\ parsed = Pending
    /\ IdleNorm /\ IdleColour /\ IdleServer

ParseQuery ==
    /\ qgen # Pending
    /\ IsPending(parsed)
    /\ parsed' = parse_height_filter(qtext)
    /\ UNCHANGED <<qgen, qtext>>
    /\ UNCHANGED <<normVars, colourVars, serverVars>>

NextParse == ParseQuery

SpecParse == InitParse /\ [][NextParse]_vars

(***************************************************************************)
(* normalize_property on its own                                           *)
(***************************************************************************)
InitNorm ==
    /\ nval \in NormInputs
    /\ nres = Pending
    /\ IdleParse /\ IdleColour /\ IdleServer

Normalize ==
    /\ ldpc = "off" /\ qgen = Pending /\ cin = Pending
    /\ IsPending(nres)
    /\ nres' \in normalize_property(nval)
    /\ UNCHANGED nval
    /\ UNCHANGED <<parseVars, colourVars, serverVars>>

NextNorm == Normalize

SpecNorm == InitNorm /\ [][NextNorm]_vars

(***************************************************************************)
(* height_to_color on its own                                              *)
(***************************************************************************)
InitColour ==
    /\ cin \in ColourInputs
    /\ cout = Pending
    /\ IdleParse /\ IdleNorm /\ IdleServer

ComputeColour ==
    /\ cin # Pending
    /\ IsPending(cout)
    /\ cout' = [colour |-> height_to_color(cin.height, cin.low, cin.high)]
    /\ UNCHANGED cin
    /\ UNCHANGED <<parseVars, normVars, serverVars>>

NextColour == ComputeColour

SpecColour == InitColour /\ [][NextColour]_vars


(***************************************************************************)
(* Properties of parse_height_filter                                       *)
(***************************************************************************)
\* The parser run has ended on a text put together from the pools
ParsedBuilt == qgen # Pending /\ ~IsPending(parsed) /\ qgen.kind = "built"

\* The numbers the texts of NumPool write, as parse_height_filter holds them
NumValues == << <<45, 1>>, <<45, 10>>, <<45, 1>> >>

\* The operator the fixed mapping assigns to each token of OpAlts
MappedOps ==
    <<">=", "<=", ">", "<", "==", "==", ">", "<", ">=", "<=",
      ">", "<", ">", "<", "==">>

\* C1: a text that opens its height expression with "at most" (or "at
\* least"), directly followed by a number, parses to the operator <= (or >=)
\* with that number as threshold; "at most 45 meters" gives {<=, 45.0}.
C1_AtMostAtLeast ==
    (/\ ParsedBuilt
     /\ AnchorAlts[qgen.anchor] \in {<<W.at, W.most>>, <<W.at, W.least>>}
     /\ qgen.op = 0
     /\ GapPool[qgen.gap] = <<>>
     /\ WsPool[qgen.ws] = <<" ">>)
    => parsed = [op  |-> IF AnchorAlts[qgen.anchor] = <<W.at, W.most>>
                         THEN "<=" ELSE ">=",
                 val |-> NumValues[qgen.num]]

\* The operator token stands where the pattern can read it as one: after a
\* gap, or as a symbol (a word written onto the anchor makes one word of both)
ExplicitOperator ==
    /\ ParsedBuilt
    /\ qgen.op # 0
    /\ GapPool[qgen.gap] # <<>> \/ qgen.op <= 6

\* C2: an explicit operator token that directly precedes the number decides
\* the operator, by the fixed mapping: in any letter case and with any run
\* of whitespace between the two words of a two-word token.
C2_ExplicitOperatorWins ==
    ExplicitOperator =>
        parsed = [op |-> MappedOps[qgen.op], val |-> NumValues[qgen.num]]

(***************************************************************************)
(* Properties of normalize_property                                        *)
(***************************************************************************)
\* C7: normalize_property never raises, whatever the kind of the value, and
\* returns a value of a kind it does not recognise (a text, a list, a
\* mapping) unchanged.
C7_NeverRaises ==
    ~IsPending(nres) =>
        /\ ~nres.raised
        /\ nval.k \in {"str", "list", "dict"} => nres.value = nval

\* C8: a boolean, native or numpy, is normalized to a boolean, never to an
\* integer or a real.
C8_BooleanStaysBoolean ==
    (~IsPending(nres) /\ nval.k \in {"bool", "npbool"}) =>
        /\ ~nres.raised
        /\ nres.value = Val("bool", nval.v)

(***************************************************************************)
(* Properties of height_to_color                                           *)
(***************************************************************************)
\* The colour run has ended on a numeric height and a range low < high
ColouredInRange ==
    /\ ~IsPending(cout)
    /\ IsNum(cin.height)
    /\ cin.low.v < cin.high.v

\* (height - low) cut to 0..(high - low): the exact ratio is this over the
\* width high - low
Offset == Max({0, Min({cin.height.v - cin.low.v, cin.high.v - cin.low.v})})

Width == cin.high.v - cin.low.v

\* n / d rounded to the nearest integer, ties to the even one (round())
Rounded(n, d) ==
    IF 2 * (n % d) > d \/ (2 * (n % d) = d /\ (n \div d) % 2 = 1)
    THEN (n \div d) + 1
    ELSE n \div d

\* C10 as stated: the red channel is round(255 * ratio), the green channel
\* round(255 * (1 - ratio)), the blue channel 0.
C10_RoundedChannels ==
    ColouredInRange =>
        cout.colour = "#" \o Hex2(Rounded(255 * Offset, Width))
                          \o Hex2(Rounded(255 * (Width - Offset), Width))
                          \o "00"

\* C10 as amended: the channels are cut to integers, not rounded.  The red
\* channel is the integer part of the exact 255 * ratio; the green channel is
\* the integer part of the double 255 * (1 - ratio), which is the integer
\* part of the exact value or one below it; the blue channel is 0; each is
\* written as two lowercase hexadecimal digits after "#".
C10_TruncatedChannels ==
    ColouredInRange =>
        \E g \in {(255 * (Width - Offset)) \div Width,
                  ((255 * (Width - Offset)) \div Width) - 1} \cap 0..255 :
            cout.colour = "#" \o Hex2((255 * Offset) \div Width)
                              \o Hex2(g) \o "00"

\* A height in the middle of its range: 127.5 is cut to 127 on both channels
C10_Witness ==
    /\ ColouredInRange
    /\ 2 * Offset = Width
    /\ cout.colour = "#7f7f00"

(***************************************************************************)
(* Properties of the server                                                *)
(***************************************************************************)
\* The file can be loaded: it exists, reads, and has a height attribute
Loadable == fs.exists /\ fs.readable /\ "height" \in fs.frame.cols

NotReady ==
    [status |-> 500, detail |-> "Buildings dataset not loaded", body |-> NoBody]

\* C3: while the dataset is not loaded (the load has not completed, or has
\* failed on an absent or unreadable file or a missing height attribute) a
\* query is answered with the "not loaded" error and the pipeline does not
\* run; a result is only ever computed from a completely loaded dataset.
C3_NotReadyUnlessLoaded ==
    /\ BUILDINGS_GDF # NoRef => ldpc = "done" /\ Loadable
    /\ \A i \in 1..Len(reqs) :
          /\ (reqs[i].loader # "done" \/ ~Loadable) =>
                reqs[i].resp = NotReady /\ reqs[i].filtered = NoBody
          /\ reqs[i].filtered # NoBody =>
                /\ reqs[i].loader = "done" /\ Loadable
                /\ \A j \in 1..Len(ld_gdf.rows) :
                      ld_gdf.rows[j].height.k \in {"int", "float", "nan"}

\* A query during the load is turned away, one after it is answered
C3_Witness ==
    /\ Len(reqs) = 2
    /\ reqs[1].loader = "read" /\ reqs[1].resp = NotReady
    /\ reqs[2].loader = "done" /\ reqs[2].resp.status = 200

\* height <op> val on an integer height and a threshold <<numerator,
\* denominator>>
Satisfies(op, h, val) ==
    \/ op = ">"  /\ h * val[2] > val[1]
    \/ op = ">=" /\ h * val[2] >= val[1]
    \/ op = "<"  /\ h * val[2] < val[1]
    \/ op = "<=" /\ h * val[2] <= val[1]
    \/ op = "==" /\ h * val[2] = val[1]

\* The items of seq at the indices in keep, in their order
Picked(seq, keep) ==
    [j \in 1..Cardinality(keep) |->
        seq[CHOOSE k \in keep : Cardinality({m \in keep : m <= k}) = j]]

\* The records of the file a filter is to keep: the height is a number and
\* satisfies the comparison
Kept(filt) ==
    {j \in 1..Len(fs.frame.rows) :
        /\ fs.frame.rows[j].height.k = "int"
        /\ Satisfies(filt.op, fs.frame.rows[j].height.v, filt.val)}

\* C4: under a filter {op, val} the filtered records are exactly those whose
\* height is a number satisfying height op val, in their original order; a
\* record with a missing or non-numeric height is left out under every
\* operator.
C4_FilterSelects ==
    \A i \in 1..Len(reqs) :
        (reqs[i].resp.status = 200 /\ ~IsNone(reqs[i].height_filt)) =>
            /\ reqs[i].height_filt.op \in {">", ">=", "<", "<=", "=="}
            /\ reqs[i].filtered.rows =
                  Picked(ld_gdf.rows, Kept(reqs[i].height_filt))

\* An == filter on a file of three records, one of them without a number
C4_Witness ==
    \E i \in 1..Len(reqs) :
        /\ reqs[i].resp.status = 200
        /\ ~IsNone(reqs[i].height_filt)
        /\ reqs[i].height_filt.op = "=="
        /\ Len(reqs[i].filtered.rows) = 1
        /\ Len(fs.frame.rows) = 3
        /\ \E j \in 1..3 : fs.frame.rows[j].height.k = "str"

\* The features of a response whose height is a number
Numeric(feats) ==
    {j \in 1..Len(feats) : feats[j].properties.height.k \in {"int", "float"}}

HeightsOf(feats) == {feats[j].properties.height.v : j \in Numeric(feats)}

\* C5: in a response whose subset has two distinct numeric heights, the
\* features of the subset's lowest height carry the ratio-0 colour, those of
\* its highest height the ratio-1 colour, and the legend's low and high are
\* these two colours: the range is that of the subset, not of the dataset.
C5_ColoursOfSubset ==
    \A i \in 1..Len(reqs) :
        reqs[i].resp.status = 200 =>
            /\ Len(reqs[i].resp.body.features) = Len(reqs[i].filtered.rows)
            /\ Cardinality(HeightsOf(reqs[i].resp.body.features)) >= 2 =>
                  /\ \A j \in Numeric(reqs[i].resp.body.features) :
                        /\ reqs[i].resp.body.features[j].properties.height.v
                              = Min(HeightsOf(reqs[i].resp.body.features))
                           => reqs[i].resp.body.features[j].properties.color
                                 = Val("str", "#00ff00")
                        /\ reqs[i].resp.body.features[j].properties.height.v
                              = Max(HeightsOf(reqs[i].resp.body.features))
                           => reqs[i].resp.body.features[j].properties.color
                                 = Val("str", "#ff0000")
                  /\ reqs[i].resp.body.color_legend
                        = [low |-> "#00ff00", high |-> "#ff0000"]

\* One record, in the middle of the dataset's range, is the lowest of a
\* filtered subset: it has one colour under one query and the ratio-0 colour
\* under the other
C5_Witness ==
    /\ Len(reqs) = 2
    /\ reqs[1].resp.status = 200 /\ reqs[2].resp.status = 200
    /\ IsNone(reqs[1].height_filt) /\ ~IsNone(reqs[2].height_filt)
    /\ Len(reqs[2].filtered.rows) = 2
    /\ \E a \in 1..Len(reqs[1].resp.body.features) :
          \E b \in 1..Len(reqs[2].resp.body.features) :
             /\ reqs[1].resp.body.features[a].properties.id
                   = reqs[2].resp.body.features[b].properties.id
             /\ reqs[2].resp.body.features[b].properties.color
                   = Val("str", "#00ff00")
             /\ reqs[1].resp.body.features[a].properties.color
                   \notin {Val("str", "#00ff00"), Val("str", "#ff0000"),
                           Val("str", "#1f78b4")}

\* C6: a query whose filtered subset is empty is still answered in full: no
\* features, the bounds [0, 0, 1, 1], both legend colours "#1f78b4", and
\* among the insights "0 of N buildings match the query." with N the size of
\* the dataset.
C6_EmptySubset ==
    \A i \in 1..Len(reqs) :
        (reqs[i].loader = "done" /\ reqs[i].filtered # NoBody
            /\ reqs[i].filtered.rows = <<>>) =>
            /\ reqs[i].resp.status = 200
            /\ reqs[i].resp.body.features = <<>>
            /\ reqs[i].resp.body.bounds = <<0, 0, 1, 1>>
            /\ reqs[i].resp.body.color_legend
                  = [low |-> "#1f78b4", high |-> "#1f78b4"]
            /\ \E k \in 1..Len(reqs[i].resp.body.insights) :
                  reqs[i].resp.body.insights[k]
                     = "0 of " \o ToString(Len(fs.frame.rows))
                       \o " buildings match the query."

\* No record of a dataset of three matches the query
C6_Witness ==
    \E i \in 1..Len(reqs) :
        /\ reqs[i].resp.status = 200
        /\ ~IsNone(reqs[i].height_filt)
        /\ reqs[i].filtered.rows = <<>>
        /\ Len(fs.frame.rows) = 3
        /\ \E j \in 1..3 : fs.frame.rows[j].height.k = "int"

\* C9: the loaded dataset stays as the loader left it (the same records in
\* the same order, with the columns of the file and no others) whatever
\* queries run, and the answer to a query is the one its text gets on that
\* dataset, whichever queries ran before.
C9_DatasetUnchanged ==
    /\ ldpc = "done" =>
          /\ heap = [o \in {SharedRef} |-> ld_gdf]
          /\ heap[SharedRef].cols = fs.frame.cols
          /\ Len(heap[SharedRef].rows) = Len(fs.frame.rows)
          /\ \A j \in 1..Len(fs.frame.rows) :
                /\ heap[SharedRef].rows[j].id = fs.frame.rows[j].id
                /\ heap[SharedRef].rows[j].geometry = fs.frame.rows[j].geometry
    /\ \A i \in 1..Len(reqs) :
          reqs[i].loader = "done" =>
              reqs[i].resp = query_geo([o \in {SharedRef} |-> ld_gdf], SharedRef,
                                       QueryTexts[reqs[i].text]).resp

\* Two different queries on a dataset of three records, the first with a
\* filter that drops some of them: the dataset still has its three records
C9_Witness ==
    /\ Len(reqs) = 2
    /\ reqs[1].resp.status = 200 /\ reqs[2].resp.status = 200
    /\ reqs[1].text # reqs[2].text
    /\ Len(reqs[1].filtered.rows) \in {1, 2}
    /\ Len(heap[SharedRef].rows) = 3

====
